---- MODULE Spec2Model ----
(***************************************************************************)
(* Model of the chunked LLM-analysis pipeline of FeatureAnalyzer           *)
(* (src/feature_analyzer.py) and of its batch driver (src/main.py).        *)
(*                                                                         *)
(* A string is a sequence of one-character strings.  The three numeric     *)
(* settings of the analyzer (chunk_size = 12000, the 48-character header   *)
(* marker, the 100-character minimum content) are scaled down so that      *)
(* texts of a few characters exercise every branch; their order relations  *)
(* (2 * HeaderLen <= chunk_size, MinContent < chunk_size) are those of the *)
(* source.                                                                 *)
(***************************************************************************)
EXTENDS Integers, Sequences, FiniteSets, TLC

VARIABLES
    pc,                \* "idle" | "chunked" | "loop" | "returned" | "raised" |
                       \* "written" | "failed"
    code_content,      \* the argument of the current call
    code_chunks,       \* chunk_code_by_files(code_content)
    chunk_num,         \* position of the for loop of analyze_with_llm (1-based)
    combined_analysis, \* the running total
    analysis_cache,    \* self.analysis_cache: hash(chunk) -> chunk_analysis
    response_bound,    \* whether the local `response` has been assigned
    result,            \* the returned map (meaningful when pc = "returned")
    runs,              \* number of analyze_with_llm invocations started
    last,              \* history: what the latest loop iteration did
    validated,         \* history: results of this run that passed validation
    stored,            \* history: chunk texts whose result has been stored
    oracle,            \* the model's fixed answer per chunk text, if it has one
    calls,             \* history: classification calls issued in this run
    rows               \* rows written to the CSV report by the batch driver

vars == <<pc, code_content, code_chunks, chunk_num, combined_analysis,
          analysis_cache, response_bound, result, runs, last, validated,
          stored, oracle, calls, rows>>

-----------------------------------------------------------------------------
(* Bounds of the model *)

MaxLines == 4
MaxAnalysisLines == 3
MaxRuns == 2

(* Settings of the analyzer (scaled, see the header) *)

chunk_size == 4
HeaderLen == 2
MinContent == 2

-----------------------------------------------------------------------------
(* Strings *)

NL == "\n"

Range(s) == {s[i] : i \in 1..Len(s)}

RECURSIVE Repeat(_, _)
Repeat(c, n) == IF n = 0 THEN <<>> ELSE <<c>> \o Repeat(c, n - 1)

\* str.split('\n'): always at least one field
RECURSIVE SplitFrom(_, _, _)
SplitFrom(s, i, cur) ==
    IF i > Len(s) THEN <<cur>>
    ELSE IF s[i] = NL THEN <<cur>> \o SplitFrom(s, i + 1, <<>>)
    ELSE SplitFrom(s, i + 1, Append(cur, s[i]))

Split(s) == SplitFrom(s, 1, <<>>)

\* '\n'.join(parts)
RECURSIVE Join(_)
Join(parts) ==
    IF Len(parts) = 0 THEN <<>>
    ELSE IF Len(parts) = 1 THEN parts[1]
    ELSE parts[1] \o <<NL>> \o Join(Tail(parts))

\* line.startswith('=' * 48)
StartsWithHeader(line) ==
    /\ Len(line) >= HeaderLen
    /\ SubSeq(line, 1, HeaderLen) = Repeat("=", HeaderLen)

IsSpace(c) == c \in {" ", NL}

\* str.strip()
RECURSIVE LStrip(_)
LStrip(s) == IF Len(s) > 0 /\ IsSpace(s[1]) THEN LStrip(Tail(s)) ELSE s

RECURSIVE RStrip(_)
RStrip(s) ==
    IF Len(s) > 0 /\ IsSpace(s[Len(s)]) THEN RStrip(SubSeq(s, 1, Len(s) - 1)) ELSE s

Strip(s) == RStrip(LStrip(s))

-----------------------------------------------------------------------------
(* chunk_code_by_files *)

FlushBefore_nonzero(current_size, line_size, current_chunk) ==
    current_size + line_size > chunk_size /\ current_size > 0

\* line 66: adding this line would exceed the chunk size
FlushBefore(current_size, line_size, current_chunk) ==
    current_size + line_size > chunk_size /\ current_chunk # <<>>

HeaderCut_nosize(line, current_size) == StartsWithHeader(line)

\* line 75: a file header once the chunk is more than half full
HeaderCut(line, current_size) ==
    StartsWithHeader(line) /\ 2 * current_size > chunk_size

LastChunk_dropped(chunks, current_chunk) == chunks

\* lines 81-82: add the last chunk if it exists
LastChunk(chunks, current_chunk) ==
    IF current_chunk # <<>> THEN Append(chunks, Join(current_chunk)) ELSE chunks

RECURSIVE ChunkLoop(_, _, _, _, _)
ChunkLoop(lines, i, chunks, current_chunk, current_size) ==
    IF i > Len(lines) THEN LastChunk(chunks, current_chunk)
    ELSE
      LET line == lines[i]
          line_size == Len(line)
          flush == FlushBefore(current_size, line_size, current_chunk)
          chunks1 == IF flush THEN Append(chunks, Join(current_chunk)) ELSE chunks
          chunk1 == Append(IF flush THEN <<>> ELSE current_chunk, line)
          size1 == (IF flush THEN 0 ELSE current_size) + line_size
      IN  IF HeaderCut(line, size1)
          THEN ChunkLoop(lines, i + 1, Append(chunks1, Join(chunk1)), <<>>, 0)
          ELSE ChunkLoop(lines, i + 1, chunks1, chunk1, size1)

chunk_code_by_files(text) == ChunkLoop(Split(text), 1, <<>>, <<>>, 0)

-----------------------------------------------------------------------------
(* The feature catalog and the dictionaries of the run *)

\* lines 93-107: the keys of combined_analysis, in insertion order
Catalog ==
    << "authentication", "realtime_events", "storage", "caching",
       "ai_implementation", "database", "microservices", "monolith",
       "api_exposed", "message_queues", "background_jobs", "sensitive_data",
       "external_apis" >>

CatalogSet == Range(Catalog)

\* line 190
required_features_short == << "authentication" >>

required_features ==
    << "authentication", "database", "caching", "storage", "microservices" >>

EmptyDict == [k \in {} |-> 0]

DictPut(d, k, v) == [x \in DOMAIN d \cup {k} |-> IF x = k THEN v ELSE d[x]]

\* lines 93-107
InitialCombined == [f \in CatalogSet |-> [present |-> FALSE, details |-> <<>>]]

(* A verdict of the model for one feature.  `present` is "true" or "false"  *)
(* (JSON booleans), "str" (a non-empty JSON string such as "false"),       *)
(* "absent" (the object has no such key) or "notdict" (the feature's value *)
(* is a string, not an object).  `details` is a string, or Absent.         *)
Absent == "<absent>"

V(p, d) == [present |-> p, details |-> d]

NotFound == V("false", "")

IsBool_any(p) == TRUE

\* line 201: isinstance(..., bool)
IsBool(p) == p \in {"true", "false"}

\* Python truth value of the `present` field
Truthy(p) == p \in {"true", "str"}

\* k.strip().lower() on the keys the model answers with
NormalizeKey(k) ==
    CASE k = " Authentication " -> "authentication"
      [] k = "Database" -> "database"
      [] OTHER -> k

\* line 185
NormalizeKeys(raw) ==
    [n \in {NormalizeKey(k) : k \in DOMAIN raw} |->
        raw[CHOOSE k \in DOMAIN raw : NormalizeKey(k) = n]]

\* a complete answer: every catalog feature, `trues` present with details
Answer(trues) ==
    [f \in CatalogSet |-> IF f \in DOMAIN trues THEN V("true", trues[f]) ELSE NotFound]

Without(d, keys) == [k \in DOMAIN d \ keys |-> d[k]]

Renamed(d, from, to) ==
    [k \in (DOMAIN d \ {from}) \cup {to} |-> IF k = to THEN d[from] ELSE d[k]]

One(f, d) == [k \in {f} |-> d]

(* What one call of client.chat.completions.create can produce:            *)
(* an exception, a body that is not JSON, or a JSON object.                *)
Raises == [kind |-> "raise", obj |-> EmptyDict]

Malformed == [kind |-> "malformed", obj |-> EmptyDict]

Json(obj) == [kind |-> "json", obj |-> obj]

\* valid answers
ValidAuth == Json(Answer(One("authentication", "JWT found")))

ValidNone == Json(Answer(EmptyDict))

\* valid, two keys in another case and padded
ValidRenamed ==
    Json(Renamed(Renamed([Answer(One("authentication", "OAuth")) EXCEPT
                              !["monolith"] = V("true", "single app")],
                         "authentication", " Authentication "),
                 "database", "Database"))

\* the five required features, but no realtime_events
NoRealtime ==
    Json(Without([Answer(One("authentication", "sessions")) EXCEPT
                      !["monolith"] = V("true", "single app")],
                 {"realtime_events"}))

\* a required feature is missing
NoDatabase == Json(Without(Answer(One("authentication", "JWT found")), {"database"}))

\* `present` of a required feature is not a boolean
StringRequired ==
    Json([Answer(One("caching", "Redis")) EXCEPT
              !["authentication"] = V("str", "JWT found")])

\* a required feature has no `present` field
MissingPresent ==
    Json([Answer(One("caching", "Redis")) EXCEPT
              !["database"] = V("absent", "SQL")])

\* `present` of another feature is a non-empty string
StringOther == Json([Answer(EmptyDict) EXCEPT !["monolith"] = V("str", "no")])

\* a present feature without details
NoDetails == Json([Answer(EmptyDict) EXCEPT !["storage"] = V("true", Absent)])

\* a required feature whose value is not an object
NotObject ==
    Json([Answer(One("caching", "Redis")) EXCEPT
              !["authentication"] = V("notdict", Absent)])

Outcomes ==
    { Raises, Malformed, ValidAuth, ValidNone, ValidRenamed, NoRealtime,
      NoDatabase, StringRequired, MissingPresent, StringOther, NoDetails,
      NotObject }

-----------------------------------------------------------------------------
(* analyze_with_llm: one iteration of the loop over the chunks *)

CharCode(c) ==
    CASE c = "a" -> 1 [] c = "=" -> 2 [] c = " " -> 3 [] c = NL -> 4

\* the integers hash() ranges over (2 ^ 64 in CPython; TLC's integers are
\* narrower); wide enough that the chunks of the model's texts do not collide
HashSpace == 2 ^ 24

\* line 148: hash(chunk), an integer computed from the characters
RECURSIVE Hash(_)
Hash(s) ==
    IF Len(s) = 0 THEN 0
    ELSE (Hash(SubSeq(s, 1, Len(s) - 1)) * 5 + CharCode(s[Len(s)])) % HashSpace

CacheLookup_never(cache, key) == FALSE

\* line 149
CacheLookup(cache, key) == key \in DOMAIN cache

IsSmallChunk_unstripped(chunk) == Len(chunk) < MinContent

\* line 159
IsSmallChunk(chunk) == Len(Strip(chunk)) < MinContent

\* line 191
missing_features(chunk_analysis) ==
    {required_features[i] : i \in 1..Len(required_features)} \ DOMAIN chunk_analysis

\* lines 199-205: "ok", "invalid", or "error" (AttributeError from .get)
RECURSIVE FormatCheck(_, _, _)
FormatCheck(chunk_analysis, i, valid) ==
    IF i > Len(required_features) THEN (IF valid THEN "ok" ELSE "invalid")
    ELSE LET f == required_features[i]
         IN  IF f \notin DOMAIN chunk_analysis THEN "keyerror"
             ELSE IF chunk_analysis[f].present = "notdict" THEN "error"
             ELSE FormatCheck(chunk_analysis, i + 1,
                              valid /\ IsBool(chunk_analysis[f].present))

\* line 210
MarkPresent(combined, f) == [combined EXCEPT ![f].present = TRUE]

AppendDetails_first(combined, f, d) ==
    IF combined[f].details = <<>>
    THEN [combined EXCEPT ![f].details = <<d>>]
    ELSE combined

AppendDetails_overwrite(combined, f, d) == [combined EXCEPT ![f].details = <<d>>]

\* lines 211-213
AppendDetails(combined, f, d) == [combined EXCEPT ![f].details = Append(@, d)]

\* lines 208-213: the merge loop; stops at the first exception
RECURSIVE Merge(_, _, _)
Merge(combined, chunk_analysis, i) ==
    IF i > Len(Catalog) THEN [combined |-> combined, exc |-> "none"]
    ELSE
      LET f == Catalog[i]
      IN  IF f \notin DOMAIN chunk_analysis
          THEN [combined |-> combined, exc |-> "keyerror"]
          ELSE
            LET v == chunk_analysis[f]
            IN  IF v.present = "notdict"
                THEN [combined |-> combined, exc |-> "error"]
                ELSE IF v.present = "absent"
                THEN [combined |-> combined, exc |-> "keyerror"]
                ELSE IF ~Truthy(v.present)
                THEN Merge(combined, chunk_analysis, i + 1)
                ELSE
                  LET set == MarkPresent(combined, f)
                  IN  IF v.details = Absent
                      THEN [combined |-> set, exc |-> "keyerror"]
                      ELSE Merge(AppendDetails(set, f, v.details),
                                 chunk_analysis, i + 1)

CacheWrite_always(cache, key, chunk_analysis, exc) ==
    DictPut(cache, key, chunk_analysis)

\* line 216, reached only when the merge loop raised nothing
CacheWrite(cache, key, chunk_analysis, exc) ==
    IF exc = "none" THEN DictPut(cache, key, chunk_analysis) ELSE cache

OnDecodeError_propagates(st) ==
    [st EXCEPT !.path = "decode", !.bound = TRUE, !.raised = TRUE]

\* lines 218-220: the handler of json.JSONDecodeError
OnDecodeError(st) == [st EXCEPT !.path = "decode", !.bound = TRUE]

(* lines 165-227 for one chunk that is neither cached nor small.           *)
(* path: "transport", "decode", "missing", "invalid", "keyerror", "error", *)
(* "merged"; raised: an exception leaves analyze_with_llm.                 *)
Classify(combined, cache, key, outcome, bound) ==
    LET same == [path |-> "transport", combined |-> combined, cache |-> cache,
                 bound |-> bound, raised |-> FALSE, parsed |-> FALSE,
                 passed |-> FALSE, chunk_analysis |-> EmptyDict]
    IN
    IF outcome.kind = "raise"
    THEN \* line 227 reads `response`, which line 165 did not assign
         [same EXCEPT !.raised = ~bound]
    ELSE IF outcome.kind = "malformed"
    THEN OnDecodeError(same)
    ELSE
      LET chunk_analysis == NormalizeKeys(outcome.obj)
          got == [same EXCEPT !.bound = TRUE, !.parsed = TRUE,
                              !.chunk_analysis = chunk_analysis]
      IN  IF missing_features(chunk_analysis) # {}
          THEN [got EXCEPT !.path = "missing"]
          ELSE
            LET fmt == FormatCheck(chunk_analysis, 1, TRUE)
            IN  IF fmt # "ok"
                THEN [got EXCEPT !.path = fmt]
                ELSE
                  LET m == Merge(combined, chunk_analysis, 1)
                  IN  [got EXCEPT
                          !.path = IF m.exc # "none" THEN m.exc ELSE "merged",
                          !.passed = TRUE,
                          !.combined = m.combined,
                          !.cache = CacheWrite(cache, key, chunk_analysis, m.exc)]

-----------------------------------------------------------------------------
(* analyze_with_llm: finalisation *)

Orderings(S) == {s \in [1..Cardinality(S) -> S] : Range(s) = S}

CleanDetails_nodedup(details) ==
    IF details # <<>> THEN {details} ELSE {<< "Not found" >>}

CleanDetails_blank(details) ==
    IF details # <<>> THEN Orderings(Range(details)) ELSE {<< "" >>}

\* lines 232-237: "\n".join(set(details)), in one of the orders of the set,
\* as the sequence of the joined strings; "Not found" when there is none
CleanDetails(details) ==
    IF details # <<>> THEN Orderings(Range(details)) ELSE {<< "Not found" >>}

RECURSIVE CleanUp(_, _)
CleanUp(combined, i) ==
    IF i > Len(Catalog) THEN {EmptyDict}
    ELSE LET f == Catalog[i]
         IN  {DictPut(m, f, [present |-> combined[f].present, details |-> d]) :
                 m \in CleanUp(combined, i + 1), d \in CleanDetails(combined[f].details)}

-----------------------------------------------------------------------------
(* Inputs *)

Str3(c) == <<c, c, c>>

\* the lines the texts given to the chunker are made of
ChunkLines ==
    { <<>>, <<"a">>, <<"a", "a">>, Str3("a"), <<"=", "=">>, <<"=", "=", "a">>,
      <<"a", "a", "a", "a", "a">> }

\* the lines the analysed texts are made of: one that fills a chunk, and one
\* that alone leaves a chunk of less than MinContent characters once stripped
\* and twice makes a chunk with enough content
AnalysisLines == { Str3("a"), <<" ", "a">> }

TextsOf(lines, n) == {Join(ls) : ls \in UNION {[1..k -> lines] : k \in 1..n}}

Texts == TextsOf(ChunkLines, MaxLines)

AnalysisTexts == TextsOf(AnalysisLines, MaxAnalysisLines)

\* chunk_code_by_files on the analysed texts, computed once
ChunksOf == [t \in AnalysisTexts |-> chunk_code_by_files(t)]

-----------------------------------------------------------------------------
(* State *)

NoLast ==
    [path |-> "none", chunk |-> <<>>, before |-> InitialCombined,
     cache_before |-> EmptyDict, parsed |-> FALSE, keys |-> {},
     analysis |-> EmptyDict, num |-> 0, calls |-> 0]

\* FeatureAnalyzer.__init__ (line 24), before any call
Init ==
    /\ pc = "idle"
    /\ code_content = <<>>
    /\ code_chunks = <<>>
    /\ chunk_num = 0
    /\ combined_analysis = InitialCombined
    /\ analysis_cache = EmptyDict
    /\ response_bound = FALSE
    /\ result = EmptyDict
    /\ runs = 0
    /\ last = NoLast
    /\ validated = {}
    /\ stored = {}
    /\ oracle = EmptyDict
    /\ calls = 0
    /\ rows = 0

\* main.py lines 79-101 and lines 87-107: the batch driver takes the next
\* repository and calls analyze_with_llm, which runs up to its loop
StartRun ==
    /\ pc \in {"idle", "written", "failed"}
    /\ runs < MaxRuns
    /\ \E text \in AnalysisTexts :
          /\ code_content' = text
          /\ code_chunks' = ChunksOf[text]
    /\ pc' = "loop"
    /\ chunk_num' = 1
    /\ combined_analysis' = InitialCombined
    /\ response_bound' = FALSE
    /\ result' = EmptyDict
    /\ runs' = runs + 1
    /\ last' = NoLast
    /\ validated' = {}
    /\ calls' = 0
    /\ UNCHANGED <<analysis_cache, stored, oracle, rows>>

InLoop == pc = "loop" /\ chunk_num <= Len(code_chunks)

Chunk == code_chunks[chunk_num]

Iteration(path) ==
    [path |-> path, chunk |-> Chunk, before |-> combined_analysis,
     cache_before |-> analysis_cache, parsed |-> FALSE, keys |-> {},
     analysis |-> EmptyDict, num |-> chunk_num, calls |-> calls]

\* lines 148-152: the chunk's key is in the cache
UseCached ==
    /\ InLoop
    /\ CacheLookup(analysis_cache, Hash(Chunk))
    /\ chunk_num' = chunk_num + 1
    /\ last' = Iteration("hit")
    /\ validated' = validated \cup {analysis_cache[Hash(Chunk)]}
    /\ UNCHANGED <<pc, code_content, code_chunks, combined_analysis,
                   analysis_cache, response_bound, result, runs, stored,
                   oracle, calls, rows>>

\* lines 158-161: the chunk is too small to hold code
SkipSmall ==
    /\ InLoop
    /\ ~CacheLookup(analysis_cache, Hash(Chunk))
    /\ IsSmallChunk(Chunk)
    /\ chunk_num' = chunk_num + 1
    /\ last' = Iteration("small")
    /\ UNCHANGED <<pc, code_content, code_chunks, combined_analysis,
                   analysis_cache, response_bound, result, runs, validated,
                   stored, oracle, calls, rows>>

Advance_retry(n, r) ==
    IF r.raised \/ r.path = "transport" THEN n ELSE n + 1

\* line 146: the loop goes to the next chunk, unless an exception left it
Advance(n, r) == IF r.raised THEN n ELSE n + 1

\* lines 165-227: the chunk is sent to the model, whose call ends as outcome
Respond(outcome) ==
    LET r == Classify(combined_analysis, analysis_cache, Hash(Chunk),
                      outcome, response_bound)
    IN  /\ Chunk \in DOMAIN oracle => outcome = oracle[Chunk]
        /\ pc' = IF r.raised THEN "raised" ELSE "loop"
        /\ chunk_num' = Advance(chunk_num, r)
        /\ combined_analysis' = r.combined
        /\ analysis_cache' = r.cache
        /\ response_bound' = r.bound
        /\ last' = [Iteration(r.path) EXCEPT !.parsed = r.parsed,
                                             !.keys = DOMAIN r.chunk_analysis,
                                             !.analysis = r.chunk_analysis]
        /\ validated' = IF r.passed THEN validated \cup {r.chunk_analysis}
                        ELSE validated
        /\ stored' = IF r.path = "merged" THEN stored \cup {Chunk} ELSE stored
        /\ calls' = calls + 1
        /\ UNCHANGED <<code_content, code_chunks, result, runs, oracle, rows>>

Callable ==
    /\ InLoop
    /\ ~CacheLookup(analysis_cache, Hash(Chunk))
    /\ ~IsSmallChunk(Chunk)

\* line 165 raises (network, rate limit, ...)
ClassifyRaises ==
    /\ Callable
    /\ Respond(Raises)

\* line 165 returns a response
ClassifyResponds ==
    /\ Callable
    /\ \E outcome \in Outcomes \ {Raises} : Respond(outcome)

\* lines 229-239: clean up the details and return
Finalize ==
    /\ pc = "loop"
    /\ chunk_num > Len(code_chunks)
    /\ pc' = "returned"
    /\ result' \in CleanUp(combined_analysis, 1)
    /\ UNCHANGED <<code_content, code_chunks, chunk_num, combined_analysis,
                   analysis_cache, response_bound, runs, last, validated,
                   stored, oracle, calls, rows>>

Driver == <<code_content, code_chunks, chunk_num, combined_analysis,
            analysis_cache, response_bound, result, runs, last, validated,
            stored, oracle, calls>>

\* main.py lines 103-114: analyze_with_llm returned, the row is written
WriteRow ==
    /\ pc = "returned"
    /\ pc' = "written"
    /\ rows' = rows + 1
    /\ UNCHANGED Driver

\* main.py lines 116-118: an exception left analyze_with_llm; the driver
\* reports it and goes to the next repository without writing a row
AnalysisError ==
    /\ pc = "raised"
    /\ pc' = "failed"
    /\ UNCHANGED <<rows, Driver>>

Next ==
    \/ StartRun
    \/ UseCached
    \/ SkipSmall
    \/ ClassifyRaises
    \/ ClassifyResponds
    \/ Finalize
    \/ WriteRow
    \/ AnalysisError

Spec == Init /\ [][Next]_vars

-----------------------------------------------------------------------------
(* The chunker alone, on every text of Texts *)

InitChunk ==
    /\ pc = "idle"
    /\ code_content \in Texts
    /\ code_chunks = <<>>
    /\ chunk_num = 0
    /\ combined_analysis = InitialCombined
    /\ analysis_cache = EmptyDict
    /\ response_bound = FALSE
    /\ result = EmptyDict
    /\ runs = 0
    /\ last = NoLast
    /\ validated = {}
    /\ stored = {}
    /\ oracle = EmptyDict
    /\ calls = 0
    /\ rows = 0

\* line 89: code_chunks = self.chunk_code_by_files(code_content)
ChunkText ==
    /\ pc = "idle"
    /\ pc' = "chunked"
    /\ code_chunks' = chunk_code_by_files(code_content)
    /\ UNCHANGED <<code_content, chunk_num, combined_analysis, analysis_cache,
                   response_bound, result, runs, last, validated, stored,
                   oracle, calls, rows>>

NextChunk == ChunkText

SpecChunk == InitChunk /\ [][NextChunk]_vars

-----------------------------------------------------------------------------
(* A model that answers deterministically per chunk text *)

\* the chunks of the analysed texts that are sent to the model
DetChunks ==
    {c \in UNION {Range(chunk_code_by_files(t)) : t \in AnalysisTexts} :
        ~IsSmallChunk(c)}

DetOutcomes == {Raises, Malformed, ValidAuth, ValidRenamed, NoRealtime}

InitDet ==
    /\ pc = "idle"
    /\ code_content = <<>>
    /\ code_chunks = <<>>
    /\ chunk_num = 0
    /\ combined_analysis = InitialCombined
    /\ analysis_cache = EmptyDict
    /\ response_bound = FALSE
    /\ result = EmptyDict
    /\ runs = 0
    /\ last = NoLast
    /\ validated = {}
    /\ stored = {}
    /\ oracle \in [DetChunks -> DetOutcomes]
    /\ calls = 0
    /\ rows = 0

SpecDet == InitDet /\ [][Next]_vars

\* lines 146-227 as one function: the loop from position i on, from the state
\* st, with the model answering answer[chunk]
RECURSIVE RunLoop(_, _, _, _)
RunLoop(chunks, i, st, answer) ==
    IF i > Len(chunks) \/ st.raised THEN st
    ELSE
      LET chunk == chunks[i]
      IN  IF CacheLookup(st.cache, Hash(chunk)) \/ IsSmallChunk(chunk)
          THEN RunLoop(chunks, i + 1, st, answer)
          ELSE
            LET r == Classify(st.combined, st.cache, Hash(chunk), answer[chunk],
                              st.bound)
            IN  RunLoop(chunks, i + 1,
                        [combined |-> r.combined, cache |-> r.cache,
                         bound |-> r.bound, raised |-> r.raised], answer)

\* analyze_with_llm(text) on a freshly constructed analyzer
FreshRun(text, answer) ==
    RunLoop(chunk_code_by_files(text), 1,
            [combined |-> InitialCombined, cache |-> EmptyDict,
             bound |-> FALSE, raised |-> FALSE], answer)

-----------------------------------------------------------------------------
(* Properties of analyze_with_llm *)

FailedPaths == {"transport", "decode", "missing", "invalid", "keyerror", "error"}

\* C1: analyze_with_llm never propagates an exception, whatever the outcomes
\* of the classification calls (first call of the run included).
C1_NeverPropagates == pc # "raised"

\* the validated results of this run that report feature f as present
Reporters(f) == {r \in validated : f \in DOMAIN r /\ r[f].present = "true"}

EvidenceOf(f) == {r[f].details : r \in Reporters(f)} \ {Absent}

\* C2: a returned map has exactly the 13 catalog keys; present[f] holds iff a
\* validated chunk of the run (classified or served from the cache) reported
\* present=true for f; details[f] is the join of the deduplicated details of
\* those chunks, or "Not found".
C2_ExactVerdicts ==
    pc = "returned" =>
        /\ DOMAIN result = CatalogSet
        /\ \A f \in CatalogSet :
              /\ result[f].present = (Reporters(f) # {})
              /\ result[f].details \in
                    (IF EvidenceOf(f) = {} THEN {<< "Not found" >>}
                     ELSE Orderings(EvidenceOf(f)))

\* C3: a chunk whose processing failed leaves the running total as it was
\* before the chunk, for every feature.
C3_AllOrNothing ==
    last.path \in FailedPaths => combined_analysis = last.before

\* C4: with a model that answers deterministically per chunk text, every
\* invocation returns the map a freshly constructed analyzer returns for the
\* same text.
C4_Stateless ==
    pc = "returned" =>
        LET f == FreshRun(code_content, oracle)
        IN  ~f.raised /\ result \in CleanUp(f.combined, 1)

\* C5: at the start of every invocation the cache holds no entry written by
\* an earlier invocation.
C5_CachePerRun ==
    (pc = "loop" /\ chunk_num = 1) => DOMAIN analysis_cache = {}

\* C6: once a chunk text has been classified and its result stored, no later
\* chunk with the same text causes a call to the model.
C6_NoSecondCall ==
    [][(ClassifyRaises \/ ClassifyResponds) => Chunk \notin stored]_vars

\* a chunk whose text was stored before has just been served from the cache
C6_Witness == last.path = "hit" /\ last.chunk \in stored

Required5 == {"authentication", "database", "caching", "storage", "microservices"}

\* C10: a chunk whose parsed response lacks one of the five required features
\* after key normalisation is skipped entirely: nothing of it is merged,
\* nothing is cached, and the loop goes on with the next chunk.
C10_MissingRequiredSkipped ==
    [][(/\ chunk_num' # chunk_num
        /\ last'.parsed
        /\ ~(Required5 \subseteq last'.keys))
       => (/\ combined_analysis' = combined_analysis
           /\ analysis_cache' = analysis_cache
           /\ pc' = "loop"
           /\ chunk_num' = chunk_num + 1)]_vars

\* a response without `database` that reports authentication has been
\* skipped, nothing of it is in the running total, and the loop is at the
\* next chunk
C10_Witness ==
    /\ last.path = "missing"
    /\ "authentication" \in last.keys
    /\ "database" \notin last.keys
    /\ pc = "loop"
    /\ chunk_num = 2
    /\ combined_analysis = InitialCombined

\* the loop went on to the next chunk after the iteration `last` describes
Continued ==
    /\ pc \in {"loop", "returned", "written"}
    /\ chunk_num = last.num + 1

\* the iteration `last` describes changed neither the running total nor the
\* cache
Skipped ==
    /\ combined_analysis = last.before
    /\ analysis_cache = last.cache_before

\* all five required features are there, one of them without a boolean
\* `present`
NonBoolRequired(ca) ==
    /\ Required5 \subseteq DOMAIN ca
    /\ \E f \in Required5 : ca[f].present \notin {"true", "false"}

\* C11: a chunk whose response has the five required features, one of them
\* with a `present` that is not a boolean (a string, missing, or the value is
\* not an object), is skipped: nothing merged, nothing cached, and the run
\* continues with the next chunk.
C11_NonBooleanSkipped ==
    (last.parsed /\ NonBoolRequired(last.analysis)) => (Skipped /\ Continued)

\* after a merged chunk, a chunk whose authentication.present is a string has
\* been skipped and the merged evidence is still in the running total
C11_Witness ==
    /\ last.parsed
    /\ NonBoolRequired(last.analysis)
    /\ last.analysis["authentication"].present = "str"
    /\ last.before # InitialCombined
    /\ combined_analysis = last.before
    /\ pc = "loop"

\* C12: a chunk whose response is not valid JSON contributes nothing, the
\* loop goes on, and the run returns a complete map over the 13 features
\* holding what the other chunks contributed.
C12_MalformedContained ==
    last.path = "decode" =>
        /\ Skipped
        /\ Continued
        /\ pc \in {"returned", "written"} =>
              (DOMAIN result = CatalogSet /\ result \in CleanUp(last.before, 1))

\* a run whose last chunk was answered with malformed JSON has returned the
\* evidence of an earlier chunk
C12_Witness ==
    /\ last.path = "decode"
    /\ pc = "returned"
    /\ result["authentication"].present
    /\ last.num = 2

\* C13: if no chunk of the run passed validation, the returned map has
\* present=false and details="Not found" for all 13 catalog features.
C13_AllFailedAllDefault ==
    (pc = "returned" /\ validated = {}) =>
        /\ DOMAIN result = CatalogSet
        /\ \A f \in CatalogSet :
              result[f] = [present |-> FALSE, details |-> << "Not found" >>]

\* two chunks were sent to the model, both failed validation, and the run
\* has returned
C13_Witness ==
    /\ pc = "returned"
    /\ validated = {}
    /\ calls = 2
    /\ last.path \in {"decode", "missing", "invalid", "error"}

\* the features whose running flag was true before the iteration `last`
\* describes
SetBefore ==
    IF last.path = "none" THEN {}
    ELSE {f \in CatalogSet : last.before[f].present}

\* C14: within one run, a feature whose running `present` is true stays true
\* and keeps every details string it has, whatever the next chunk does
\* (reports false, fails, is skipped, hits the cache); the run is not
\* abandoned after a flag was set, and the returned verdict of the feature is
\* present=true with details containing those strings.
C14_MonotonicOr ==
    /\ \A f \in SetBefore :
          /\ combined_analysis[f].present
          /\ SubSeq(combined_analysis[f].details, 1,
                    Len(last.before[f].details)) = last.before[f].details
          /\ pc \in {"returned", "written"} =>
                /\ result[f].present
                /\ Range(last.before[f].details) \subseteq Range(result[f].details)
    /\ (\E f \in CatalogSet : combined_analysis[f].present) =>
          pc \notin {"raised", "failed"}

\* chunk A set authentication with "JWT found", chunk B was answered with
\* authentication absent, and the run returned present=true with "JWT found"
C14_Witness ==
    /\ pc = "returned"
    /\ last.path = "merged"
    /\ last.analysis["authentication"].present = "false"
    /\ last.before["authentication"] =
          [present |-> TRUE, details |-> << "JWT found" >>]
    /\ result["authentication"] =
          [present |-> TRUE, details |-> << "JWT found" >>]

\* the running total after the chunk result of `last` is merged once more
MergedAgain == Merge(combined_analysis, last.analysis, 1).combined

\* C15: merging a validated chunk result (also one whose merge stopped at a
\* missing key) a second time into the running total gives, for every
\* feature, the same `present` flag and the same cleaned-up (deduplicated)
\* details as merging it once.
C15_MergeIdempotent ==
    last.path \in {"merged", "keyerror"} =>
        \A f \in CatalogSet :
            /\ MergedAgain[f].present = combined_analysis[f].present
            /\ CleanDetails(MergedAgain[f].details) =
                  CleanDetails(combined_analysis[f].details)

\* a result reporting authentication with "JWT found" was merged by the run
\* for the second time: the details list holds the string twice and the
\* returned details hold it once
C15_Witness ==
    /\ pc = "returned"
    /\ last.path = "merged"
    /\ last.analysis["authentication"] = V("true", "JWT found")
    /\ combined_analysis["authentication"].details =
          << "JWT found", "JWT found" >>
    /\ Len(MergedAgain["authentication"].details) = 3
    /\ result["authentication"].details = << "JWT found" >>

\* the chunks in every order
Reorderings(chunks) ==
    LET n == Len(chunks)
    IN  {[i \in 1..n |-> chunks[p[i]]] :
            p \in {q \in [1..n -> 1..n] : Range(q) = 1..n}}

\* every call of the run is answered (with a valid, partial or malformed
\* result)
AllAnswered ==
    \A i \in 1..Len(code_chunks) :
        code_chunks[i] \in DOMAIN oracle => oracle[code_chunks[i]] # Raises

\* the loop over chunks on a fresh analyzer, with the model's answers
LoopOver(chunks) ==
    RunLoop(chunks, 1, [combined |-> InitialCombined, cache |-> EmptyDict,
                        bound |-> FALSE, raised |-> FALSE], oracle)

\* flags and deduplicated details of a running total
Verdicts(combined) ==
    [f \in CatalogSet |->
        [present |-> combined[f].present, details |-> Range(combined[f].details)]]

\* C16: with every chunk answered by the model, processing the chunks of a
\* run in any permutation gives the same `present` flag and the same set of
\* details strings for every catalog feature, and the first invocation on an
\* analyzer returns these.
C16_OrderIndependent ==
    (pc = "returned" /\ AllAnswered) =>
        \A chunks \in Reorderings(code_chunks) :
            /\ ~LoopOver(chunks).raised
            /\ Verdicts(LoopOver(chunks).combined) =
                  Verdicts(LoopOver(code_chunks).combined)
            /\ runs = 1 => result \in CleanUp(LoopOver(chunks).combined, 1)

\* a first invocation returned after merging two different results for
\* authentication; in the opposite order of the chunks the details list
\* comes out in the other order
C16_Witness ==
    /\ pc = "returned"
    /\ runs = 1
    /\ AllAnswered
    /\ combined_analysis["authentication"].details = << "JWT found", "OAuth" >>
    /\ \E chunks \in Reorderings(code_chunks) :
          LoopOver(chunks).combined["authentication"].details =
              << "OAuth", "JWT found" >>

\* the iteration `last` describes was on a chunk with less than MinContent
\* characters between its leading and trailing whitespace
LastWasSmall ==
    /\ last.path # "none"
    /\ Len(Strip(last.chunk)) < MinContent

\* C17: a chunk whose whitespace-trimmed text is shorter than the minimum
\* content causes no classification call, is not merged and is never cached:
\* the number of calls, the running total and the cache are after it what
\* they were before it.
C17_SmallChunkSkipped ==
    /\ LastWasSmall =>
          /\ calls = last.calls
          /\ Skipped
          /\ pc # "raised"
    /\ \A c \in stored : Len(Strip(c)) >= MinContent

\* after a merged chunk, a chunk that is long enough only with its leading
\* blank was skipped
C17_Witness ==
    /\ LastWasSmall
    /\ last.path = "small"
    /\ Len(last.chunk) >= MinContent
    /\ last.before # InitialCombined
    /\ calls = 1
    /\ pc = "loop"

\* the four validation stages: parsed, keys normalised, the five required
\* features there, each with a boolean `present`
PassesValidation(ca) ==
    /\ Required5 \subseteq DOMAIN ca
    /\ \A f \in Required5 : ca[f].present \in {"true", "false"}

\* C18: whenever the response for a chunk passes the four validation stages,
\* the validated map is in the cache under the chunk's fingerprint.
C18_ValidatedIsCached ==
    (last.parsed /\ PassesValidation(last.analysis)) =>
        /\ Hash(last.chunk) \in DOMAIN analysis_cache
        /\ analysis_cache[Hash(last.chunk)] = last.analysis

\* C19: within one run the chunks are taken one after the other in document
\* order and each causes at most one call: every handled chunk moves the
\* loop one position on, also after a failed call, an iteration adds at
\* most one call, and the calls never outnumber the chunks handled.
C19_SequentialUnretried ==
    /\ calls <= Len(code_chunks)
    /\ last.path # "none" => calls \in {last.calls, last.calls + 1}
    /\ pc \in {"loop", "returned", "written"} =>
          /\ calls <= chunk_num - 1
          /\ last.path # "none" => chunk_num = last.num + 1
    /\ pc \in {"raised", "failed"} => (calls <= chunk_num /\ chunk_num = last.num)

\* the second call of a run failed and was contained, and the loop is at the
\* third chunk with two calls made
C19_Witness ==
    /\ pc = "loop"
    /\ last.path = "transport"
    /\ last.num = 2
    /\ chunk_num = 3
    /\ calls = 2

\* C23: for every catalog feature, required or not, the running flag is set
\* by a chunk only when the chunk's `present` for the feature is the boolean
\* true; a non-boolean `present` on a non-required feature never sets it.
C23_OnlyBooleanTrueSets ==
    last.path # "none" =>
        \A f \in CatalogSet :
            (combined_analysis[f].present /\ ~last.before[f].present) =>
                (f \in DOMAIN last.analysis /\ last.analysis[f].present = "true")

\* C24: in every returned map, present=false goes with details "Not found",
\* and present=true goes with the evidence strings the merged chunks
\* appended, at least one, never the sentinel of the finalisation.
C24_FlagAndEvidenceAgree ==
    pc = "returned" =>
        \A f \in CatalogSet :
            /\ ~result[f].present => result[f].details = << "Not found" >>
            /\ result[f].present =>
                  /\ combined_analysis[f].details # <<>>
                  /\ Range(result[f].details) = Range(combined_analysis[f].details)

\* every key a catalog feature and every verdict complete: what a result
\* whose merge loop ran to its end looks like
FullyMerged(before, ca, after) ==
    /\ CatalogSet \subseteq DOMAIN ca
    /\ \A f \in CatalogSet :
          /\ ca[f].present \in {"true", "false", "str"}
          /\ ca[f].present = "false" => after[f] = before[f]
          /\ ca[f].present # "false" =>
                /\ ca[f].details # Absent
                /\ after[f] = [present |-> TRUE,
                               details |-> Append(before[f].details, ca[f].details)]

\* C25: the cache is written only on the full-success path.  A chunk that is
\* skipped as small, hits the cache, or fails at transport, parsing,
\* validation or merge leaves the cache as it was; a stored entry is the
\* validated result of the chunk, merged completely into the running total
\* of the run; no entry is ever removed or replaced.
C25_CacheOnlyOnSuccess ==
    /\ last.path \in {"small", "hit"} \cup FailedPaths =>
          analysis_cache = last.cache_before
    /\ last.path = "merged" =>
          /\ analysis_cache =
                DictPut(last.cache_before, Hash(last.chunk), last.analysis)
          /\ Hash(last.chunk) \notin DOMAIN last.cache_before
          /\ PassesValidation(last.analysis)
          /\ FullyMerged(last.before, last.analysis, combined_analysis)
    /\ DOMAIN analysis_cache = {Hash(c) : c \in stored}
    /\ \A k \in DOMAIN analysis_cache :
          /\ PassesValidation(analysis_cache[k])
          /\ FullyMerged(InitialCombined, analysis_cache[k],
                         Merge(InitialCombined, analysis_cache[k], 1).combined)

\* in a second invocation on the analyzer, the second chunk was merged and
\* stored next to the entry of the first invocation
C25_Witness ==
    /\ runs = 2
    /\ last.path = "merged"
    /\ last.num = 2
    /\ last.cache_before # EmptyDict
    /\ Cardinality(DOMAIN analysis_cache) = 2

-----------------------------------------------------------------------------
(* Properties of analyze_repositories *)

\* C20: the batch driver never reports an analysis error for a repository
\* because of failed classification calls: every repository handed to
\* analyze_with_llm gets its row.
C20_EveryRepositoryGetsRow ==
    /\ pc # "failed"
    /\ pc \in {"idle", "written"} => rows = runs

-----------------------------------------------------------------------------
(* Properties of chunk_code_by_files *)

\* C7: joining the chunks with newlines, in order, gives back the input text.
C7_Lossless == pc = "chunked" => Join(code_chunks) = code_content

\* a text cut into at least three chunks, one of them cut at a header
C7_Witness ==
    /\ pc = "chunked"
    /\ Len(code_chunks) >= 3
    /\ \E i \in 1..(Len(code_chunks) - 1) :
          StartsWithHeader(Split(code_chunks[i])[Len(Split(code_chunks[i]))])
    /\ Join(code_chunks) = code_content

RECURSIVE MaxLen(_)
MaxLen(lines) ==
    IF Len(lines) = 0 THEN 0
    ELSE LET m == MaxLen(Tail(lines))
         IN  IF Len(lines[1]) > m THEN Len(lines[1]) ELSE m

\* C8: every chunk, separators included, is at most chunk_size plus the
\* length of one line of the input long.
C8_BoundedOverflow ==
    pc = "chunked" =>
        \A i \in 1..Len(code_chunks) :
            Len(code_chunks[i]) <= chunk_size + MaxLen(Split(code_content))

\* C9: the empty text gives no chunk at all.
C9_EmptyGivesNoChunk ==
    (pc = "chunked" /\ code_content = <<>>) => code_chunks = <<>>

\* the lines of a chunk
LinesOf(chunk) == Split(chunk)

\* the sum of the lengths of the first j lines
RECURSIVE RunningSize(_, _)
RunningSize(lines, j) ==
    IF j = 0 THEN 0 ELSE RunningSize(lines, j - 1) + Len(lines[j])

\* line j of the chunk is a header line at which the chunk is more than half
\* full
CutsAt(lines, j) ==
    /\ StartsWithHeader(lines[j])
    /\ 2 * RunningSize(lines, j) > chunk_size

\* C21: in every chunk, a header line at which the running size of the chunk
\* is more than half of chunk_size is the last line of the chunk; a header
\* line at which it is at most half does not close the chunk: where such a
\* line ends a chunk, the next line did not fit any more.
C21_EarlyBoundaryCut ==
    pc = "chunked" =>
        \A i \in 1..Len(code_chunks) :
            LET lines == LinesOf(code_chunks[i])
                n == Len(lines)
            IN  /\ \A j \in 1..n : CutsAt(lines, j) => j = n
                /\ (/\ i < Len(code_chunks)
                    /\ StartsWithHeader(lines[n])
                    /\ ~CutsAt(lines, n)) =>
                      RunningSize(lines, n)
                          + Len(LinesOf(code_chunks[i + 1])[1]) > chunk_size

\* a text in which one header line stays inside its chunk, at half of
\* chunk_size, and a later header line closes its chunk before the text ends
C21_Witness ==
    /\ pc = "chunked"
    /\ \E i \in 1..Len(code_chunks) :
          LET lines == LinesOf(code_chunks[i])
          IN  \E j \in 1..(Len(lines) - 1) :
                  StartsWithHeader(lines[j]) /\ ~CutsAt(lines, j)
    /\ \E i \in 1..(Len(code_chunks) - 1) :
          LET lines == LinesOf(code_chunks[i])
          IN  CutsAt(lines, Len(lines)) /\ RunningSize(lines, Len(lines)) <= chunk_size

\* C22: an input line longer than chunk_size is not split and is a chunk of
\* its own: a chunk that holds such a line holds no other line, and there
\* are as many such chunks as such lines, whatever lines (empty ones
\* included) come before or after.
C22_LongLineAlone ==
    pc = "chunked" =>
        /\ \A i \in 1..Len(code_chunks) :
              LET lines == LinesOf(code_chunks[i])
              IN  (\E j \in 1..Len(lines) : Len(lines[j]) > chunk_size) =>
                      Len(lines) = 1
        /\ Cardinality({i \in 1..Len(code_chunks) :
                           Len(code_chunks[i]) > chunk_size
                           /\ NL \notin Range(code_chunks[i])}) =
              Cardinality({k \in 1..Len(Split(code_content)) :
                              Len(Split(code_content)[k]) > chunk_size})

\* a long line between two empty lines came out as the second of three
\* chunks
C22_Witness ==
    /\ pc = "chunked"
    /\ Len(code_chunks) = 3
    /\ code_chunks[1] = <<>>
    /\ Len(code_chunks[2]) > chunk_size
    /\ NL \notin Range(code_chunks[2])
    /\ code_chunks[3] = <<>>

====
